---- MODULE Spec2Model ----
(***************************************************************************)
(* Model of scripts/download-models.py: one process run of the download    *)
(* CLI.  A run parses argv, resolves the destination under MODELS_DIR,     *)
(* creates the directory, calls snapshot_download once and reports.        *)
(*                                                                         *)
(* Strings are sequences of one-character strings, so that os.path.join    *)
(* and pathlib's path parsing are computed character by character.         *)
(***************************************************************************)
EXTENDS Naturals, Sequences, FiniteSets

VARIABLES
    pc,             \* position of the process in main / download_model
    argv,           \* sys.argv[1:], a sequence of tokens
    environ,        \* os.environ restricted to MODELS_DIR
    fs,             \* the filesystem: directories, regular files, unwritable directories
    fs0,            \* the filesystem at process start (history)
    args,           \* the namespace returned by parser.parse_args()
    output_path,    \* main's local output_path
    stdout,         \* lines printed to standard output
    stderr,         \* what argparse / the interpreter wrote to standard error
    mkdir_calls,    \* arguments of the Path(...).mkdir calls made so far
    snapshot_calls, \* keyword arguments of the snapshot_download calls made so far
    exc,            \* the exception in flight inside the try block ("" if none)
    exit_status     \* <<n>> once the process exited with status n, <<>> while running

vars == <<pc, argv, environ, fs, fs0, args, output_path, stdout, stderr,
          mkdir_calls, snapshot_calls, exc, exit_status>>

----------------------------------------------------------------------------
(* Bounds and input sets *)

\* longest command line explored
MaxArgs == 4

\* exit_status of a process that has not terminated; <<n>> once it exited with n
NoStatus == <<>>

\* option values that appear on the command line (model ids and output names)
ArgTexts ==
    { <<>>, <<"a">>, <<"/", "a">>, <<"a", "/", "b">> }

\* values of MODELS_DIR: empty, absolute, relative, absolute with trailing slash
EnvTexts ==
    { <<>>, <<"/", "d">>, <<"r">>, <<"/", "d", "/">> }

\* os.environ without MODELS_DIR
Unset == [set |-> FALSE, value |-> <<>>]

Environs == {Unset} \cup { [set |-> TRUE, value |-> t] : t \in EnvTexts }

Opt(name) == [opt |-> name, text |-> <<>>]

Val(t) == [opt |-> "", text |-> t]

Tokens == {Opt("--model"), Opt("--output"), Opt("--help")} \cup { Val(t) : t \in ArgTexts }

Argvs == UNION { [1..n -> Tokens] : n \in 0..MaxArgs }

----------------------------------------------------------------------------
(* argparse: parser.parse_args() for two required one-argument options and *)
(* the default -h/--help option                                            *)

IsOption(tok) == tok.opt # ""

EmptyNamespace ==
    [has_model |-> FALSE, model |-> <<>>, has_output |-> FALSE, output |-> <<>>]

SetOption(ns, name, t) ==
    IF name = "--model"
    THEN [ns EXCEPT !.has_model = TRUE, !.model = t]
    ELSE [ns EXCEPT !.has_output = TRUE, !.output = t]

RECURSIVE ParseFrom(_, _, _, _)
ParseFrom(av, i, ns, extras) ==
    IF i > Len(av)
    THEN IF ns.has_model /\ ns.has_output /\ ~extras
         THEN [status |-> "ok", ns |-> ns]
         ELSE [status |-> "error", ns |-> ns]
    ELSE IF av[i].opt = "--help"
    THEN [status |-> "help", ns |-> ns]
    ELSE IF IsOption(av[i])
    THEN IF i + 1 <= Len(av) /\ ~IsOption(av[i + 1])
         THEN ParseFrom(av, i + 2, SetOption(ns, av[i].opt, av[i + 1].text), extras)
         ELSE [status |-> "error", ns |-> ns]
    ELSE ParseFrom(av, i + 1, ns, TRUE)

\* ParseArgs with the options declared without required=True
ParseArgsNotRequired(av) ==
    LET r == ParseFrom(av, 1, EmptyNamespace, FALSE) IN
    IF r.status = "error" THEN [r EXCEPT !.status = "ok"] ELSE r

ParseArgs(av) == ParseFrom(av, 1, EmptyNamespace, FALSE)

----------------------------------------------------------------------------
(* Paths *)

Slash == "/"

DefaultModelsDir == <<"/", "m", "o", "d", "e", "l", "s">>

\* ModelsDir that never reads the environment
ModelsDirIgnoresEnv(env) == DefaultModelsDir

\* os.environ.get("MODELS_DIR", "/models")
ModelsDir(env) == IF env.set THEN env.value ELSE DefaultModelsDir

StartsWithSlash(p) == Len(p) > 0 /\ p[1] = Slash

EndsWithSlash(p) == Len(p) > 0 /\ p[Len(p)] = Slash

\* os.path.isabs
IsAbs(p) == StartsWithSlash(p)

\* Join as plain concatenation with a separator: an absolute b does not reset
JoinConcat(a, b) == a \o <<Slash>> \o b

\* os.path.join(a, b)
Join(a, b) ==
    IF StartsWithSlash(b) THEN b
    ELSE IF Len(a) = 0 \/ EndsWithSlash(a) THEN a \o b
    ELSE a \o <<Slash>> \o b

\* the components of a path string: empty components are dropped
RECURSIVE SplitFrom(_, _, _, _)
SplitFrom(p, i, cur, acc) ==
    IF i > Len(p)
    THEN IF cur = <<>> THEN acc ELSE Append(acc, cur)
    ELSE IF p[i] = Slash
    THEN SplitFrom(p, i + 1, <<>>, IF cur = <<>> THEN acc ELSE Append(acc, cur))
    ELSE SplitFrom(p, i + 1, Append(cur, p[i]), acc)

\* pathlib.Path(p): anchored at the root or at the working directory
PathOf(p) == [abs |-> IsAbs(p), parts |-> SplitFrom(p, 1, <<>>, <<>>)]

\* Path.parent; the parent of an anchor is the anchor itself
Parent(node) ==
    IF node.parts = <<>> THEN node
    ELSE [node EXCEPT !.parts = SubSeq(node.parts, 1, Len(node.parts) - 1)]

\* the path and all its ancestors, anchor included
Chain(node) ==
    { [node EXCEPT !.parts = SubSeq(node.parts, 1, k)] : k \in 0..Len(node.parts) }

ProperAncestors(node) == Chain(node) \ {node}

----------------------------------------------------------------------------
(* The filesystem: os.mkdir and Path.mkdir(parents=True, exist_ok=True) *)

Root == [abs |-> TRUE, parts |-> <<>>]

Cwd == [abs |-> FALSE, parts |-> <<>>]

IsDir(f, node) == node \in f.dirs

IsFile(f, node) == node \in f.files

Exists(f, node) == IsDir(f, node) \/ IsFile(f, node)

Writable(f, node) == IsDir(f, node) /\ node \notin f.readonly

NoError == ""

\* os.mkdir(node): creates one directory or fails with an OSError
OsMkdir(f, node) ==
    IF \E a \in ProperAncestors(node) : IsFile(f, a)
    THEN [fs |-> f, err |-> "NotADirectoryError"]
    ELSE IF \E a \in ProperAncestors(node) : ~Exists(f, a)
    THEN [fs |-> f, err |-> "FileNotFoundError"]
    ELSE IF Exists(f, node)
    THEN [fs |-> f, err |-> "FileExistsError"]
    ELSE IF ~Writable(f, Parent(node))
    THEN [fs |-> f, err |-> "PermissionError"]
    ELSE [fs |-> [f EXCEPT !.dirs = @ \cup {node}], err |-> NoError]

\* pathlib.Path.mkdir(parents, exist_ok)
RECURSIVE PathMkdir(_, _, _, _)
PathMkdir(f, node, parents, exist_ok) ==
    LET r == OsMkdir(f, node) IN
    IF r.err = NoError THEN r
    ELSE IF r.err = "FileNotFoundError"
    THEN IF ~parents \/ Parent(node) = node
         THEN r
         ELSE LET up == PathMkdir(f, Parent(node), TRUE, TRUE) IN
              IF up.err # NoError THEN up
              ELSE PathMkdir(up.fs, node, FALSE, exist_ok)
    ELSE IF ~exist_ok \/ ~IsDir(f, node)
    THEN r
    ELSE [fs |-> f, err |-> NoError]

\* the filesystems a run can start in, as far as the run can observe them:
\* the first k directories on the way to node exist, the next entry may be a
\* regular file, and any of the existing directories may be unwritable
Filesystems(node) ==
    LET d == Len(node.parts)
        Prefix(k) == [node EXCEPT !.parts = SubSeq(node.parts, 1, k)]
        DirsUpTo(k) == { Prefix(j) : j \in 0..k }
    IN  UNION { UNION { { [dirs |-> DirsUpTo(k) \cup {Root, Cwd}, files |-> fl,
                           readonly |-> ro]
                          : ro \in SUBSET DirsUpTo(k) }
                        : fl \in IF k < d THEN { {}, {Prefix(k + 1)} } ELSE { {} } }
                : k \in 0..d }

\* the path a run with this command line and environment will work on
Target(av, env) ==
    LET r == ParseArgs(av) IN
    IF r.status = "ok" THEN PathOf(Join(ModelsDir(env), r.ns.output)) ELSE Cwd

----------------------------------------------------------------------------
(* Output lines *)

Line(fmt, model, dir, cause) ==
    [fmt |-> fmt, model |-> model, dir |-> dir, cause |-> cause]

DownloadingLine(model, dir) == Line("Downloading {model_name} to {output_dir}...", model, dir, "")

SuccessLine(model) == Line("Successfully downloaded {model_name}", model, <<>>, "")

ErrorLine(model, cause) == Line("Error downloading {model_name}: {e}", model, <<>>, cause)

HelpLine == Line("usage and help", <<>>, <<>>, "")

UsageErrorLine == Line("usage and error", <<>>, <<>>, "")

TracebackLine(cause) == Line("Traceback", <<>>, <<>>, cause)

----------------------------------------------------------------------------
(* The process *)

Init ==
    /\ pc = "parse_args"
    /\ argv \in Argvs
    /\ environ \in Environs
    /\ fs \in Filesystems(Target(argv, environ))
    /\ fs0 = fs
    /\ args = EmptyNamespace
    /\ output_path = <<>>
    /\ stdout = <<>>
    /\ stderr = <<>>
    /\ mkdir_calls = <<>>
    /\ snapshot_calls = <<>>
    /\ exc = NoError
    /\ exit_status = NoStatus

\* sys.exit(n) and the end of the interpreter
Exit(n) ==
    /\ exit_status' = <<n>>
    /\ pc' = "exited"

\* parser.parse_args() meets -h/--help: prints the help and exits 0
ParseHelp ==
    /\ pc = "parse_args"
    /\ ParseArgs(argv).status = "help"
    /\ stdout' = Append(stdout, HelpLine)
    /\ Exit(0)
    /\ UNCHANGED <<argv, environ, fs, fs0, args, output_path, stderr,
                   mkdir_calls, snapshot_calls, exc>>

\* parser.parse_args() rejects the command line: usage on stderr, exit 2
ParseError ==
    /\ pc = "parse_args"
    /\ ParseArgs(argv).status = "error"
    /\ stderr' = Append(stderr, UsageErrorLine)
    /\ Exit(2)
    /\ UNCHANGED <<argv, environ, fs, fs0, args, output_path, stdout,
                   mkdir_calls, snapshot_calls, exc>>

\* args = parser.parse_args()
ParseOk ==
    /\ pc = "parse_args"
    /\ ParseArgs(argv).status = "ok"
    /\ args' = ParseArgs(argv).ns
    /\ pc' = "resolve"
    /\ UNCHANGED <<argv, environ, fs, fs0, output_path, stdout, stderr,
                   mkdir_calls, snapshot_calls, exc, exit_status>>

\* models_dir = os.environ.get(...); output_path = os.path.join(models_dir, args.output)
ResolvePath ==
    /\ pc = "resolve"
    /\ output_path' = Join(ModelsDir(environ), args.output)
    /\ pc' = "download_model"
    /\ UNCHANGED <<argv, environ, fs, fs0, args, stdout, stderr,
                   mkdir_calls, snapshot_calls, exc, exit_status>>

\* download_model(args.model, output_path): the first print inside the try block
PrintDownloading ==
    /\ pc = "download_model"
    /\ stdout' = Append(stdout, DownloadingLine(args.model, output_path))
    /\ pc' = "mkdir"
    /\ UNCHANGED <<argv, environ, fs, fs0, args, output_path, stderr,
                   mkdir_calls, snapshot_calls, exc, exit_status>>

\* MkdirStep left out: the download is attempted without creating anything
MkdirStepSkipped ==
    /\ pc = "mkdir"
    /\ pc' = "snapshot_download"
    /\ mkdir_calls' = Append(mkdir_calls, output_path)
    /\ UNCHANGED <<argv, environ, fs, fs0, args, output_path, stdout, stderr,
                   snapshot_calls, exc, exit_status>>

\* MkdirStep with exist_ok=False
MkdirStepExistNotOk ==
    /\ pc = "mkdir"
    /\ LET r == PathMkdir(fs, PathOf(output_path), TRUE, FALSE) IN
        /\ fs' = r.fs
        /\ exc' = r.err
        /\ pc' = IF r.err = NoError THEN "snapshot_download" ELSE "except"
    /\ mkdir_calls' = Append(mkdir_calls, output_path)
    /\ UNCHANGED <<argv, environ, fs0, args, output_path, stdout, stderr,
                   snapshot_calls, exit_status>>

\* MkdirStep whose failure is swallowed: the download is attempted anyway
MkdirStepIgnoreFailure ==
    /\ pc = "mkdir"
    /\ LET r == PathMkdir(fs, PathOf(output_path), TRUE, TRUE) IN
        /\ fs' = r.fs
    /\ pc' = "snapshot_download"
    /\ mkdir_calls' = Append(mkdir_calls, output_path)
    /\ UNCHANGED <<argv, environ, fs0, args, output_path, stdout, stderr,
                   snapshot_calls, exc, exit_status>>

\* MkdirStep placed before the try block: a failure is an uncaught exception
MkdirStepOutsideTry ==
    /\ pc = "mkdir"
    /\ LET r == PathMkdir(fs, PathOf(output_path), TRUE, TRUE) IN
        /\ fs' = r.fs
        /\ exc' = r.err
        /\ IF r.err = NoError
           THEN /\ pc' = "snapshot_download"
                /\ UNCHANGED <<stderr, exit_status>>
           ELSE /\ stderr' = Append(stderr, TracebackLine(r.err))
                /\ Exit(1)
    /\ mkdir_calls' = Append(mkdir_calls, output_path)
    /\ UNCHANGED <<argv, environ, fs0, args, output_path, stdout, snapshot_calls>>

\* Path(output_dir).mkdir(parents=True, exist_ok=True)
MkdirStep ==
    /\ pc = "mkdir"
    /\ LET r == PathMkdir(fs, PathOf(output_path), TRUE, TRUE) IN
        /\ fs' = r.fs
        /\ exc' = r.err
        /\ pc' = IF r.err = NoError THEN "snapshot_download" ELSE "except"
    /\ mkdir_calls' = Append(mkdir_calls, output_path)
    /\ UNCHANGED <<argv, environ, fs0, args, output_path, stdout, stderr,
                   snapshot_calls, exit_status>>

SnapshotArgs ==
    [repo_id |-> args.model, local_dir |-> output_path,
     local_dir_use_symlinks |-> FALSE, resume_download |-> TRUE]

\* snapshot_download(...) returns
SnapshotReturns ==
    /\ pc = "snapshot_download"
    /\ snapshot_calls' = Append(snapshot_calls, SnapshotArgs)
    /\ pc' = "print_success"
    /\ UNCHANGED <<argv, environ, fs, fs0, args, output_path, stdout, stderr,
                   mkdir_calls, exc, exit_status>>

\* snapshot_download(...) raises an Exception
SnapshotRaises ==
    /\ pc = "snapshot_download"
    /\ snapshot_calls' = Append(snapshot_calls, SnapshotArgs)
    /\ exc' = "Exception"
    /\ pc' = "except"
    /\ UNCHANGED <<argv, environ, fs, fs0, args, output_path, stdout, stderr,
                   mkdir_calls, exit_status>>

\* snapshot_download(...) is interrupted: KeyboardInterrupt is no Exception,
\* the except clause does not catch it and the interpreter ends the process
SnapshotInterrupted ==
    /\ pc = "snapshot_download"
    /\ snapshot_calls' = Append(snapshot_calls, SnapshotArgs)
    /\ exc' = "KeyboardInterrupt"
    /\ stderr' = Append(stderr, TracebackLine("KeyboardInterrupt"))
    /\ Exit(130)
    /\ UNCHANGED <<argv, environ, fs, fs0, args, output_path, stdout, mkdir_calls>>

\* PrintSuccess that formats the directory instead of the model name
PrintSuccessWrongName ==
    /\ pc = "print_success"
    /\ stdout' = Append(stdout, SuccessLine(output_path))
    /\ pc' = "return"
    /\ UNCHANGED <<argv, environ, fs, fs0, args, output_path, stderr,
                   mkdir_calls, snapshot_calls, exc, exit_status>>

\* print(f"Successfully downloaded {model_name}")
PrintSuccess ==
    /\ pc = "print_success"
    /\ stdout' = Append(stdout, SuccessLine(args.model))
    /\ pc' = "return"
    /\ UNCHANGED <<argv, environ, fs, fs0, args, output_path, stderr,
                   mkdir_calls, snapshot_calls, exc, exit_status>>

\* HandleException without sys.exit(1): the function returns normally
HandleExceptionNoExit ==
    /\ pc = "except"
    /\ stdout' = Append(stdout, ErrorLine(args.model, exc))
    /\ pc' = "return"
    /\ UNCHANGED <<argv, environ, fs, fs0, args, output_path, stderr,
                   mkdir_calls, snapshot_calls, exc, exit_status>>

\* HandleException that retries the download after a failure
HandleExceptionRetry ==
    /\ pc = "except"
    /\ stdout' = Append(stdout, ErrorLine(args.model, exc))
    /\ exc' = NoError
    /\ pc' = "snapshot_download"
    /\ UNCHANGED <<argv, environ, fs, fs0, args, output_path, stderr,
                   mkdir_calls, snapshot_calls, exit_status>>

\* except Exception as e: print(...); sys.exit(1)
HandleException ==
    /\ pc = "except"
    /\ stdout' = Append(stdout, ErrorLine(args.model, exc))
    /\ Exit(1)
    /\ UNCHANGED <<argv, environ, fs, fs0, args, output_path, stderr,
                   mkdir_calls, snapshot_calls, exc>>

\* download_model and main return; the interpreter exits with status 0
ReturnFromMain ==
    /\ pc = "return"
    /\ Exit(0)
    /\ UNCHANGED <<argv, environ, fs, fs0, args, output_path, stdout, stderr,
                   mkdir_calls, snapshot_calls, exc>>

Next ==
    \/ ParseHelp
    \/ ParseError
    \/ ParseOk
    \/ ResolvePath
    \/ PrintDownloading
    \/ MkdirStep
    \/ SnapshotReturns
    \/ SnapshotRaises
    \/ SnapshotInterrupted
    \/ PrintSuccess
    \/ HandleException
    \/ ReturnFromMain

Spec == Init /\ [][Next]_vars

----------------------------------------------------------------------------
(* Vocabulary of the properties *)

\* the option appears on the command line
Supplied(name) == \E i \in 1..Len(argv) : argv[i].opt = name

BothSupplied == Supplied("--model") /\ Supplied("--output")

\* the command-line word that follows the last occurrence of the option
GivenValue(name) ==
    LET S == { i \in 1..(Len(argv) - 1) : argv[i].opt = name }
        last == CHOOSE i \in S : \A j \in S : j <= i
    IN  argv[last + 1].text

Printed(line) == \E i \in 1..Len(stdout) : stdout[i] = line

PrintedFormat(fmt) == \E i \in 1..Len(stdout) : stdout[i].fmt = fmt

SuccessFormat == SuccessLine(<<>>).fmt

ErrorFormat == ErrorLine(<<>>, "").fmt

Exited == pc = "exited"

\* the directory the run works on, once main has resolved it
Dest == PathOf(output_path)

DelegateInvoked == Len(snapshot_calls) > 0

DelegateRaised == DelegateInvoked /\ exc = "Exception"

DelegateReturned == DelegateInvoked /\ exc = NoError

AboutToDelegate == pc = "snapshot_download"

MkdirErrors == {"FileExistsError", "NotADirectoryError", "PermissionError", "FileNotFoundError"}

MkdirFailed == Len(mkdir_calls) > 0 /\ exc \in MkdirErrors

\* the base directory as the environment defines it
BaseDir == IF environ.set THEN environ.value ELSE <<"/", "m", "o", "d", "e", "l", "s">>

----------------------------------------------------------------------------
(* Properties *)

\* C1: when both flags are supplied and snapshot_download raises an error, the
\* run goes to the handler only, prints the error line carrying the model
\* identifier given on the command line, ends with exit status exactly 1, and
\* never prints the success line.
C1_DelegateErrorExitsOne ==
    (BothSupplied /\ DelegateRaised) =>
        /\ pc \in {"except", "exited"}
        /\ ~PrintedFormat(SuccessFormat)
        /\ Exited => /\ exit_status = <<1>>
                     /\ Printed(ErrorLine(GivenValue("--model"), "Exception"))

C1_Witness ==
    /\ Exited
    /\ BothSupplied
    /\ DelegateRaised
    /\ exit_status = <<1>>
    /\ PrintedFormat(ErrorFormat)

\* C2: when both flags are supplied and snapshot_download returns, the run
\* prints the success line carrying the model identifier given on the command
\* line, ends with exit status 0, and never prints the error line.
C2_DelegateSuccessExitsZero ==
    (BothSupplied /\ DelegateReturned) =>
        /\ pc \in {"print_success", "return", "exited"}
        /\ ~PrintedFormat(ErrorFormat)
        /\ pc \in {"return", "exited"} => Printed(SuccessLine(GivenValue("--model")))
        /\ Exited => exit_status = <<0>>

C2_Witness ==
    /\ Exited
    /\ BothSupplied
    /\ DelegateReturned
    /\ exit_status = <<0>>
    /\ PrintedFormat(SuccessFormat)

\* C3 as stated: when --model or --output is omitted the run ends with a
\* non-zero exit status, creates no directory and never calls the delegate.
C3_OmittedFlagExitsNonZero ==
    (~BothSupplied /\ Exited) =>
        /\ exit_status # <<0>>
        /\ mkdir_calls = <<>>
        /\ snapshot_calls = <<>>
        /\ fs = fs0

\* C3 amended: when --model or --output is omitted, no directory is created
\* and the delegate is never called at any point of the run; the run ends with
\* exit status 2, unless -h/--help is on the command line, in which case it
\* may instead print the help and end with exit status 0.
C3_OmittedFlagNoSideEffects ==
    ~BothSupplied =>
        /\ mkdir_calls = <<>>
        /\ snapshot_calls = <<>>
        /\ fs = fs0
        /\ pc \in {"parse_args", "exited"}
        /\ Exited => \/ exit_status = <<2>>
                     \/ /\ Supplied("--help")
                        /\ exit_status = <<0>>
                        /\ Printed(HelpLine)

C3_Witness ==
    /\ Exited
    /\ ~BothSupplied
    /\ ~Supplied("--help")
    /\ Len(argv) > 0
    /\ exit_status = <<2>>

\* C4: whenever the delegate is about to be invoked or has been invoked for a
\* destination that did not exist at process start, the single mkdir call has
\* been made on that destination and the destination and every ancestor of it
\* are directories.
C4_CreatedBeforeDelegate ==
    ((AboutToDelegate \/ DelegateInvoked) /\ ~Exists(fs0, Dest)) =>
        /\ mkdir_calls = <<output_path>>
        /\ \A n \in Chain(Dest) : IsDir(fs, n)

C4_Witness ==
    /\ AboutToDelegate
    /\ ~Exists(fs0, Dest)
    /\ ~Exists(fs0, Parent(Dest))
    /\ IsDir(fs, Dest)
    /\ IsDir(fs, Parent(Dest))

\* C5: the delegate is invoked at most once per run; after it raised, the
\* handler runs and the process exits without another call.
C5_AtMostOneDelegateCall ==
    /\ Len(snapshot_calls) <= 1
    /\ (DelegateInvoked /\ exc # NoError) => pc \in {"except", "exited"}

C5_Witness ==
    /\ Exited
    /\ DelegateRaised
    /\ Len(snapshot_calls) = 1

\* C6: the path handed to mkdir and the local_dir handed to the delegate are
\* both join(base_dir, output) for the output name given on the command line,
\* base_dir being MODELS_DIR when set and /models otherwise.
C6_DestinationIsJoin ==
    /\ \A i \in 1..Len(mkdir_calls) :
           mkdir_calls[i] = Join(BaseDir, GivenValue("--output"))
    /\ \A i \in 1..Len(snapshot_calls) :
           snapshot_calls[i].local_dir = Join(BaseDir, GivenValue("--output"))

C6_Witness ==
    /\ environ.set
    /\ environ.value # <<>>
    /\ Len(mkdir_calls) = 1
    /\ Len(snapshot_calls) = 1

\* C7 as stated: for every MODELS_DIR and every --output the destination
\* path is absolute.
C7_DestinationAlwaysAbsolute ==
    \A i \in 1..Len(mkdir_calls) : IsAbs(mkdir_calls[i])

\* C7 amended: the destination path is absolute exactly when the base
\* directory is absolute (MODELS_DIR unset, or set to an absolute path) or the
\* --output value is itself absolute; a relative or empty MODELS_DIR with a
\* relative --output gives a relative destination.
C7_AbsoluteIffBaseOrOutputAbsolute ==
    \A i \in 1..Len(mkdir_calls) :
        IsAbs(mkdir_calls[i]) <=> (IsAbs(BaseDir) \/ IsAbs(GivenValue("--output")))

C7_Witness ==
    /\ Len(mkdir_calls) = 1
    /\ environ.set
    /\ ~IsAbs(environ.value)
    /\ IsAbs(GivenValue("--output"))
    /\ IsAbs(output_path)

\* C8: when the destination already is a directory at process start, the mkdir
\* step changes nothing in the filesystem and does not fail: the run goes on
\* to the delegate, which receives the same arguments as after a creation.
C8_ExistingDirectoryIsNoOp ==
    (Len(mkdir_calls) > 0 /\ IsDir(fs0, Dest)) =>
        /\ fs = fs0
        /\ exc \notin MkdirErrors
        /\ AboutToDelegate \/ DelegateInvoked
        /\ DelegateInvoked =>
               snapshot_calls = <<[repo_id |-> GivenValue("--model"),
                                   local_dir |-> output_path,
                                   local_dir_use_symlinks |-> FALSE,
                                   resume_download |-> TRUE]>>

C8_Witness ==
    /\ DelegateInvoked
    /\ IsDir(fs0, Dest)
    /\ Dest.parts # <<>>

\* C9 as stated: whenever the delegate is about to be invoked, the destination
\* exists, is a directory and is writable by the process.
C9_WritableDirectoryAtDelegation ==
    AboutToDelegate => (IsDir(fs, Dest) /\ Writable(fs, Dest))

\* C9 amended: whenever the delegate is about to be invoked, the destination
\* exists and is a directory (it need not be writable).
C9_DirectoryAtDelegation ==
    AboutToDelegate => (Exists(fs, Dest) /\ IsDir(fs, Dest) /\ ~IsFile(fs, Dest))

C9_Witness ==
    /\ AboutToDelegate
    /\ IsDir(fs, Dest)
    /\ ~Writable(fs, Dest)

\* C10: when creating the destination directory fails, the delegate is never
\* invoked, the handler prints the error line for the model given on the
\* command line with the cause, and the process exits with status 1: the same
\* format and status as for a failure of the delegate.
C10_MkdirFailureHandledLikeDownloadFailure ==
    MkdirFailed =>
        /\ snapshot_calls = <<>>
        /\ pc \in {"except", "exited"}
        /\ ~PrintedFormat(SuccessFormat)
        /\ Exited => /\ exit_status = <<1>>
                     /\ Printed(ErrorLine(GivenValue("--model"), exc))

C10_Witness ==
    /\ Exited
    /\ MkdirFailed
    /\ exc = "NotADirectoryError"
    /\ exit_status = <<1>>
    /\ PrintedFormat(ErrorFormat)

====
